---------------------------- MODULE Spec2Model ----------------------------
(***************************************************************************)
(* RestaurantScraper (src/restaurants_scrapper.py): one scraping session   *)
(* driven through its context-manager interface,                           *)
(*                                                                         *)
(*     with RestaurantScraper() as s:                                      *)
(*         s.get_restaurants()                                             *)
(*         s.save_to_csv()                                                 *)
(*                                                                         *)
(* The browser, the page under scrape and the file system are the          *)
(* environment: every call into them is an input of the action that makes  *)
(* it (it returns, or it raises a PlaywrightError or another Exception).   *)
(***************************************************************************)
EXTENDS Integers, Sequences, FiniteSets, TLC

\* ------------------------------------------------------------------ bounds

\* Largest number of result blocks ("div.g") a page holds.
MaxBlocks == 3

\* ------------------------------------------------------- program constants

\* stop_after_attempt(3)
MaxAttempts == 3

\* The sentinel of a field that could not be extracted.
NA == "N/A"

\* The selector probed for each key.
Selector ==
  [Name |-> "h3", Rating |-> "span[aria-label]",
   Address |-> "[data-dtype='d3adr']", Phone |-> "[data-dtype='d3ph']"]

Selectors == {Selector[k] : k \in DOMAIN Selector}

\* The four resources a session acquires, in acquisition order.
AcquireOrder == <<"playwright", "browser", "context", "page">>

Resources == {"playwright", "browser", "context", "page"}

\* A teardown that closes the context before the page.
ReleaseOrderSwapped == <<"context", "page", "browser", "playwright">>

\* The order in which _cleanup_resources tests and releases the fields.
ReleaseOrder == <<"page", "context", "browser", "playwright">>

\* The two handlers every try block of the class has.
ErrKinds == {"PlaywrightError", "Exception"}

\* ---------------------------------------------------------- environment

\* What select_one does for a selector on a parsed block: it finds no
\* element, it raises, or it finds an element with this visible text.
NoMatch == [found |-> FALSE, raises |-> FALSE, text |-> ""]
Raises  == [found |-> FALSE, raises |-> TRUE, text |-> ""]
Text(t) == [found |-> TRUE, raises |-> FALSE, text |-> t]

\* A parsed block with every field, one with none, and one whose title has
\* a comma, whose rating probe raises and whose address is missing.
SoupFull ==
  ("h3" :> Text("Luma") @@ "span[aria-label]" :> Text("4.5") @@
   "[data-dtype='d3adr']" :> Text("12 King St\nToronto") @@
   "[data-dtype='d3ph']" :> Text("555-0100"))

SoupBare ==
  ("h3" :> NoMatch @@ "span[aria-label]" :> NoMatch @@
   "[data-dtype='d3adr']" :> NoMatch @@ "[data-dtype='d3ph']" :> NoMatch)

SoupMixed ==
  ("h3" :> Text("Cafe, Bar") @@ "span[aria-label]" :> Raises @@
   "[data-dtype='d3adr']" :> NoMatch @@ "[data-dtype='d3ph']" :> Text("555-0199"))

\* The parsed documents the blocks of a page are drawn from.
Soups == {SoupFull, SoupMixed}

\* A result block: inner_html() raises, the parser raises, or the block
\* parses to a document.
BlockRaises(kind) == [raises |-> kind, soup |-> SoupBare]
BlockSoup(s) == [raises |-> "none", soup |-> s]

Blocks == {BlockRaises(k) : k \in ErrKinds} \cup {BlockSoup(s) : s \in Soups}

RECURSIVE SeqsUpTo(_, _)
SeqsUpTo(S, n) ==
  IF n = 0 THEN {<< >>}
  ELSE LET shorter == SeqsUpTo(S, n - 1)
       IN shorter \cup {Append(q, x) : q \in {p \in shorter : Len(p) = n - 1}, x \in S}

Pages == SeqsUpTo(Blocks, MaxBlocks)

\* ---------------------------------------------------------------- state

VARIABLES
  pc,            \* where the caller is: "enter", "get", "save", "exit", "done"
  playwright,    \* self.playwright is not None
  browser,       \* self.browser is not None
  context,       \* self.context is not None
  page,          \* self.page is not None
  restaurants,   \* self.restaurants
  open,          \* the resources acquired and not yet released
  file,          \* the file at self.output_file: whether it exists, its lines
  exc,           \* the exception on its way to the caller of the session
  attempt,       \* attempts of get_restaurants made by the current call
  lastError,     \* what the last attempt of get_restaurants raised
  lastInput,     \* what the page did in the last attempt
  attemptStart,  \* open, restaurants, teardowns run when the last attempt began
  trace,         \* the page operations of the last attempt, in order
  teardowns,     \* one record per run of _cleanup_resources, in order
  writes         \* number of writes of the output file

vars ==
  <<pc, playwright, browser, context, page, restaurants, open, file, exc,
    attempt, lastError, lastInput, attemptStart, trace, teardowns, writes>>

\* ------------------------------------------------------- field extraction

\* _safe_extract: the trimmed text of the first element the selector
\* matches, the default when it matches none, "N/A" when the probe raises.
SafeExtract(soup, selector, default) ==
  IF soup[selector].raises THEN "N/A"
  ELSE IF soup[selector].found THEN soup[selector].text
  ELSE default

\* An extraction that leaves out the key of a field it did not find.
GetRestaurantDetailsPartial(block) ==
  IF block.raises # "none"
  THEN [raised |-> block.raises, details |-> << >>]
  ELSE [raised |-> "none",
        details |->
          [k \in {"Name"} \cup {key \in {"Rating", "Address", "Phone"} :
                                 block.soup[Selector[key]].found} |->
             SafeExtract(block.soup, Selector[k], NA)]]

\* An extraction that gives the record up when a probe raises.
GetRestaurantDetailsAbort(block) ==
  IF block.raises # "none"
  THEN [raised |-> block.raises, details |-> << >>]
  ELSE IF \E sel \in Selectors : block.soup[sel].raises
  THEN [raised |-> "Exception", details |-> << >>]
  ELSE [raised |-> "none",
        details |->
          [k \in DOMAIN Selector |-> SafeExtract(block.soup, Selector[k], NA)]]

\* _get_restaurant_details: inner_html() or the parser raising is logged and
\* raised again; otherwise the four-key record.
GetRestaurantDetails(block) ==
  IF block.raises # "none"
  THEN [raised |-> block.raises, details |-> << >>]
  ELSE [raised |-> "none",
        details |->
          [Name    |-> SafeExtract(block.soup, "h3", NA),
           Rating  |-> SafeExtract(block.soup, "span[aria-label]", NA),
           Address |-> SafeExtract(block.soup, "[data-dtype='d3adr']", NA),
           Phone   |-> SafeExtract(block.soup, "[data-dtype='d3ph']", NA)]]

\* The truth value Python gives a dict: it has a key.
Truthy(details) == DOMAIN details # {}

\* --------------------------------------------------------------- teardown

\* No call fails.
NoFail == [at |-> "none", kind |-> "none"]

\* The call on resource r raises an error of this kind.
FailAt(r, kind) == [at |-> r, kind |-> kind]

Fails == {NoFail} \cup {FailAt(r, k) : r \in Resources, k \in ErrKinds}

\* The fields of self that hold a resource handle.
Fields(pw, br, cx, pg) ==
  [playwright |-> pw, browser |-> br, context |-> cx, page |-> pg]

\* A teardown that logs the error of a release call and goes on.
RECURSIVE CleanupFromSwallow(_, _, _, _, _)
CleanupFromSwallow(i, fields, op, calls, fail) ==
  IF i > Len(ReleaseOrder)
  THEN [open |-> op, calls |-> calls, raised |-> "none"]
  ELSE LET r == ReleaseOrder[i]
       IN IF ~fields[r] THEN CleanupFromSwallow(i + 1, fields, op, calls, fail)
          ELSE CleanupFromSwallow(i + 1, fields, IF fail.at = r THEN op ELSE op \ {r},
                                  Append(calls, r), fail)

\* _cleanup_resources from the i-th test on: a field that is not None has
\* its release called; the first release that raises ends the teardown, the
\* error logged and raised again. No field is reset. `fail` is what the
\* environment does to the release calls.
RECURSIVE CleanupFrom(_, _, _, _, _)
CleanupFrom(i, fields, op, calls, fail) ==
  IF i > Len(ReleaseOrder)
  THEN [open |-> op, calls |-> calls, raised |-> "none"]
  ELSE LET r == ReleaseOrder[i]
       IN IF ~fields[r] THEN CleanupFrom(i + 1, fields, op, calls, fail)
          ELSE IF fail.at = r
               THEN [open |-> op, calls |-> Append(calls, r), raised |-> fail.kind]
               ELSE CleanupFrom(i + 1, fields, op \ {r}, Append(calls, r), fail)

\* The release call the environment makes raise in a teardown over these
\* fields: none when it is the call of a field that is None.
Met(fields, fail) ==
  IF fail.at # "none" /\ fields[fail.at] THEN fail ELSE NoFail

\* One run of _cleanup_resources from `caller`, as the record kept in
\* teardowns: the fields that were not None and the resources open when it
\* began, the release call that raised, the release calls it made in order,
\* what it raised, and the resources open when it ended.
CleanupResources(fields, op, fail, caller) ==
  LET out == CleanupFrom(1, fields, op, << >>, fail)
  IN [by |-> caller, fields |-> {r \in Resources : fields[r]}, held |-> op,
      fail |-> Met(fields, fail), calls |-> out.calls, raised |-> out.raised,
      open |-> out.open]

\* ----------------------------------------------------------- exceptions

NoExc == [kind |-> "none", origin |-> "none"]

Exc(kind, origin) == [kind |-> kind, origin |-> origin]

\* A handler that runs the teardown and then `raise`: the teardown's own
\* error if it raised, the handled error otherwise.
AfterCleanup(td, kind, origin) ==
  IF td.raised # "none" THEN Exc(td.raised, "_cleanup_resources")
  ELSE Exc(kind, origin)

\* ---------------------------------------------------------------- caller

\* The script that runs the session,
\*     with RestaurantScraper() as s: s.get_restaurants(); s.save_to_csv()
\* : where it goes from position `at` when the call made there raised or
\* returned. An error out of __enter__ leaves the with statement without
\* __exit__; an error in the body goes through __exit__.
Caller(at, raised) ==
  IF at = "enter" THEN (IF raised THEN "done" ELSE "get")
  ELSE IF at = "get" THEN (IF raised THEN "exit" ELSE "save")
  ELSE IF at = "save" THEN "exit"
  ELSE "done"

\* ----------------------------------------------------------------- init

NoFile == [exists |-> FALSE, lines |-> << >>]

OldFile == [exists |-> TRUE, lines |-> <<"old">>]

NoInput == [stage |-> "none", err |-> "none", cookies |-> "none", blocks |-> << >>]

\* __init__: every handle None, no record; the output path may hold a file
\* of an earlier run.
Init ==
  /\ pc = "enter"
  /\ playwright = FALSE /\ browser = FALSE /\ context = FALSE /\ page = FALSE
  /\ restaurants = << >>
  /\ open = {}
  /\ file \in {NoFile, OldFile}
  /\ exc = NoExc
  /\ attempt = 0
  /\ lastError = "none"
  /\ lastInput = NoInput
  /\ attemptStart = [open |-> {}, restaurants |-> << >>, teardowns |-> 0]
  /\ trace = << >>
  /\ teardowns = << >>
  /\ writes = 0

\* ------------------------------------------------------ initialize_browser

\* The position of a resource in the acquisition sequence.
AcquireIndex(r) == CHOOSE i \in DOMAIN AcquireOrder : AcquireOrder[i] = r

\* The resources initialize_browser has acquired when the acquisition `fail`
\* names raises (all four when none does).
Acquired(fail) ==
  IF fail.at = "none" THEN Resources
  ELSE {AcquireOrder[i] : i \in 1..(AcquireIndex(fail.at) - 1)}

\* __enter__: initialize_browser, then return self. A failing acquisition is
\* logged, the teardown runs and the error is raised again: the with
\* statement is left without __exit__.
Enter(fail, cfail) ==
  /\ pc = "enter"
  /\ LET got == Acquired(fail)
         td  == CleanupResources(Fields("playwright" \in got, "browser" \in got,
                                        "context" \in got, "page" \in got),
                                 got, cfail, "initialize_browser")
     IN /\ playwright' = ("playwright" \in got)
        /\ browser' = ("browser" \in got)
        /\ context' = ("context" \in got)
        /\ page' = ("page" \in got)
        /\ IF fail.at = "none"
           THEN /\ open' = got
                /\ pc' = Caller("enter", FALSE)
                /\ UNCHANGED <<exc, teardowns>>
           ELSE /\ open' = td.open
                /\ teardowns' = Append(teardowns, td)
                /\ exc' = AfterCleanup(td, fail.kind, "initialize_browser")
                /\ pc' = Caller("enter", TRUE)
  /\ UNCHANGED <<restaurants, file, attempt, lastError, lastInput,
                 attemptStart, trace, writes>>

\* --------------------------------------------------------- get_restaurants

\* What the page does in one attempt. stage: the call that ends the try
\* block early ("goto", "wait_for_selector", "count_log" at the log line,
\* "count_range" at the loop head) or "loop" when the loop is reached; err:
\* what that call raises; cookies: what accept_cookies met; blocks: the
\* result blocks res.nth(0), res.nth(1), ... of the page.
Input(stage, err, cookies, blocks) ==
  [stage |-> stage, err |-> err, cookies |-> cookies, blocks |-> blocks]

\* What accept_cookies can meet: the button clicked, not visible, or a call
\* raising; it swallows every one of them.
CookieOutcomes == {"clicked", "not_visible", "PlaywrightError", "Exception"}

\* A Playwright TimeoutError is a PlaywrightError.
WaitErrors == {"TimeoutError", "PlaywrightError", "Exception"}

IsPlaywrightError(kind) == kind \in {"TimeoutError", "PlaywrightError"}

AttemptInputs ==
  {Input("goto", k, "none", << >>) : k \in ErrKinds}
  \cup {Input("wait_for_selector", k, "none", << >>) : k \in WaitErrors}
  \cup {Input(st, k, c, << >>) :
          st \in {"count_log", "count_range"}, k \in ErrKinds, c \in CookieOutcomes}
  \cup {Input("loop", "none", c, bs) : c \in CookieOutcomes, bs \in Pages}

\* A page operation of an attempt; r is the block index in the loop, 0
\* outside it.
Ev(name, r) == <<name, r>>

\* A loop that stops at the first block that raises.
RECURSIVE ExtractLoopAbort(_, _, _, _)
ExtractLoopAbort(blocks, r, rest, tr) ==
  IF r >= Len(blocks) THEN [restaurants |-> rest, trace |-> tr]
  ELSE LET d == GetRestaurantDetails(blocks[r + 1])
       IN IF d.raised # "none"
          THEN [restaurants |-> rest, trace |-> Append(tr, Ev("nth", r))]
          ELSE ExtractLoopAbort(blocks, r + 1, Append(rest, d.details),
                                tr \o <<Ev("nth", r), Ev("append", r), Ev("sleep", r)>>)

\* The loop over range(res.count()) from index r on: the block is resolved
\* and extracted, the record appended if truthy, then the pacing sleep; a
\* block that raises is logged and the loop continues with the next index.
RECURSIVE ExtractLoop(_, _, _, _)
ExtractLoop(blocks, r, rest, tr) ==
  IF r >= Len(blocks) THEN [restaurants |-> rest, trace |-> tr]
  ELSE LET d == GetRestaurantDetails(blocks[r + 1])
       IN IF d.raised # "none"
          THEN ExtractLoop(blocks, r + 1, rest, Append(tr, Ev("nth", r)))
          ELSE IF Truthy(d.details)
               THEN ExtractLoop(blocks, r + 1, Append(rest, d.details),
                                tr \o <<Ev("nth", r), Ev("append", r), Ev("sleep", r)>>)
               ELSE ExtractLoop(blocks, r + 1, rest,
                                tr \o <<Ev("nth", r), Ev("sleep", r)>>)

\* An accept_cookies that lets the errors of its calls out.
AcceptCookiesRaising(met) == IF met \in ErrKinds THEN met ELSE "none"

\* accept_cookies: what it raises when it met `met`. The button is clicked
\* if visible; a PlaywrightError is logged at debug level and any other
\* Exception as a warning, and it returns.
AcceptCookies(met) == "none"

\* A try block whose loop has no handler of its own: a block that raises
\* ends the attempt, the records of the blocks before it already appended.
TryBodyNoCatch(in, rest) ==
  LET before == <<Ev("goto", 0), Ev("wait_for_selector", 0),
                  Ev("accept_cookies", 0), Ev("count", 0), Ev("count", 0)>>
      bad    == SelectSeq(in.blocks, LAMBDA b : b.raises # "none")
      out    == ExtractLoopAbort(in.blocks, 0, rest, before)
  IN IF in.stage = "goto"
     THEN [restaurants |-> rest, trace |-> SubSeq(before, 1, 1), raised |-> in.err]
     ELSE IF in.stage = "wait_for_selector"
     THEN [restaurants |-> rest, trace |-> SubSeq(before, 1, 2),
           raised |-> IF IsPlaywrightError(in.err) THEN "none" ELSE in.err]
     ELSE IF in.stage = "count_log"
     THEN [restaurants |-> rest, trace |-> SubSeq(before, 1, 4), raised |-> in.err]
     ELSE IF in.stage = "count_range"
     THEN [restaurants |-> rest, trace |-> before, raised |-> in.err]
     ELSE [restaurants |-> out.restaurants, trace |-> out.trace,
           raised |-> IF bad = << >> THEN "none" ELSE bad[1].raises]

\* The try block of get_restaurants on input `in` with result sequence
\* `rest`: the result sequence and the page operations it leaves, and the
\* error that reaches the outer handlers ("none": it returned).
TryBody(in, rest) ==
  IF in.stage = "goto"
  THEN [restaurants |-> rest, trace |-> <<Ev("goto", 0)>>, raised |-> in.err]
  ELSE IF in.stage = "wait_for_selector"
  THEN [restaurants |-> rest,
        trace |-> <<Ev("goto", 0), Ev("wait_for_selector", 0)>>,
        raised |-> IF IsPlaywrightError(in.err) THEN "none" ELSE in.err]
  ELSE IF AcceptCookies(in.cookies) # "none"
  THEN [restaurants |-> rest,
        trace |-> <<Ev("goto", 0), Ev("wait_for_selector", 0),
                    Ev("accept_cookies", 0)>>,
        raised |-> AcceptCookies(in.cookies)]
  ELSE IF in.stage = "count_log"
  THEN [restaurants |-> rest,
        trace |-> <<Ev("goto", 0), Ev("wait_for_selector", 0),
                    Ev("accept_cookies", 0), Ev("count", 0)>>,
        raised |-> in.err]
  ELSE IF in.stage = "count_range"
  THEN [restaurants |-> rest,
        trace |-> <<Ev("goto", 0), Ev("wait_for_selector", 0),
                    Ev("accept_cookies", 0), Ev("count", 0), Ev("count", 0)>>,
        raised |-> in.err]
  ELSE LET out == ExtractLoop(in.blocks, 0, rest,
                              <<Ev("goto", 0), Ev("wait_for_selector", 0),
                                Ev("accept_cookies", 0), Ev("count", 0),
                                Ev("count", 0)>>)
       IN [restaurants |-> out.restaurants, trace |-> out.trace, raised |-> "none"]

\* A decorator that stops one attempt late.
RetryDecisionLate(n, raised) ==
  IF raised = "none" THEN "return"
  ELSE IF n > MaxAttempts THEN "give_up"
  ELSE "retry"

\* A decorator that returns to the caller when it gives up.
RetryDecisionSwallow(n, raised) ==
  IF raised = "none" \/ n >= MaxAttempts THEN "return" ELSE "retry"

\* @retry(stop=stop_after_attempt(3), ...): what the decorator does after
\* attempt number n ended raising `raised`.
RetryDecision(n, raised) ==
  IF raised = "none" THEN "return"
  ELSE IF n >= MaxAttempts THEN "give_up"
  ELSE "retry"

\* The error the decorator raises when it gives up on an attempt that raised
\* `kind`: reraise is not set, so a RetryError wrapping the last attempt.
RetryRaise(kind) == "RetryError"

\* One attempt of get_restaurants and the decorator's step after it. An
\* error out of the try block is logged, the teardown runs and the error is
\* raised again. The page can be navigated only while it is open.
GetRestaurants(in, cfail) ==
  /\ pc = "get"
  /\ in.stage # "goto" => "page" \in open
  /\ LET body == TryBody(in, restaurants)
         td   == CleanupResources(Fields(playwright, browser, context, page),
                                  open, cfail, "get_restaurants")
         err  == IF body.raised = "none" THEN NoExc
                 ELSE AfterCleanup(td, body.raised, "get_restaurants")
         next == RetryDecision(attempt + 1, err.kind)
     IN /\ attempt' = attempt + 1
        /\ attemptStart' = [open |-> open, restaurants |-> restaurants,
                            teardowns |-> Len(teardowns)]
        /\ lastInput' = in
        /\ trace' = body.trace
        /\ restaurants' = body.restaurants
        /\ lastError' = err.kind
        /\ IF body.raised = "none"
           THEN UNCHANGED <<open, teardowns>>
           ELSE /\ open' = td.open
                /\ teardowns' = Append(teardowns, td)
        /\ pc' = IF next = "retry" THEN "get" ELSE Caller("get", next = "give_up")
        /\ exc' = IF next = "give_up" THEN Exc(RetryRaise(err.kind), "retry")
                  ELSE NoExc
  /\ UNCHANGED <<playwright, browser, context, page, file, writes>>

\* ------------------------------------------------------------ save_to_csv

Header == <<"Name", "Rating", "Address", "Phone">>

\* The row of a record: its values in the order of its keys.
Row(rec) == <<rec.Name, rec.Rating, rec.Address, rec.Phone>>

\* The characters the writer cannot put into a file bare: the delimiter,
\* the quote and the line ends.
Special == {",", "\"", "\n", "\r"}

NeedsQuote(t) == \E i \in 1..Len(t) : SubSeq(t, i, i) \in Special

\* A text with every quote in it doubled.
RECURSIVE Doubled(_)
Doubled(t) ==
  IF t = "" THEN ""
  ELSE (IF Head(t) = "\"" THEN "\"\"" ELSE Head(t)) \o Doubled(Tail(t))

\* A writer that never quotes.
FieldBare(t) == t

\* A cell as written under QUOTE_MINIMAL, the default of to_csv.
Field(t) == IF NeedsQuote(t) THEN "\"" \o Doubled(t) \o "\"" ELSE t

\* The cells of a row, a comma between them and a line end after them.
RECURSIVE Joined(_)
Joined(cells) ==
  IF Len(cells) = 1 THEN Field(cells[1]) \o "\n"
  ELSE Field(cells[1]) \o "," \o Joined(Tail(cells))

\* The lines of a text file: what lies between its line ends.
RECURSIVE LinesFrom(_, _)
LinesFrom(text, line) ==
  IF text = "" THEN (IF line = "" THEN << >> ELSE <<line>>)
  ELSE IF Head(text) = "\n" THEN <<line>> \o LinesFrom(Tail(text), "")
  ELSE LinesFrom(Tail(text), line \o Head(text))

\* The rows of a frame, one after another: the lines each of them takes.
RECURSIVE Written(_)
Written(rows) ==
  IF rows = << >> THEN << >>
  ELSE LinesFrom(Joined(Head(rows)), "") \o Written(Tail(rows))

\* DataFrame(records).to_csv(index=False): the header, then a row a record,
\* as the lines the file holds afterwards.
ToCsv(records) ==
  Written(<<Header>> \o [i \in DOMAIN records |-> Row(records[i])])

\* What the file system does to the write.
WriteOutcomes == {"ok", "open_fails", "write_fails"}

\* A save_to_csv without the emptiness test: the frame is written whatever
\* the result sequence holds.
SaveToCsvAlways(w) ==
  /\ pc = "save"
  /\ file' = [exists |-> TRUE, lines |-> ToCsv(restaurants)]
  /\ writes' = writes + 1
  /\ exc' = NoExc
  /\ pc' = Caller("save", FALSE)
  /\ UNCHANGED <<playwright, browser, context, page, restaurants, open, attempt,
                 lastError, lastInput, attemptStart, trace, teardowns>>

\* save_to_csv: nothing to do on an empty result sequence; otherwise the
\* file is replaced. A write that fails is logged and raised again, the file
\* untouched if it could not be opened and truncated if the write broke.
SaveToCsv(w) ==
  /\ pc = "save"
  /\ IF restaurants = << >>
     THEN UNCHANGED <<file, writes, exc>>
     ELSE /\ file' = IF w = "ok" THEN [exists |-> TRUE, lines |-> ToCsv(restaurants)]
                     ELSE IF w = "open_fails" THEN file
                     ELSE [exists |-> TRUE, lines |-> << >>]
          /\ writes' = IF w = "open_fails" THEN writes ELSE writes + 1
          /\ exc' = IF w = "ok" THEN NoExc ELSE Exc("Exception", "save_to_csv")
  /\ pc' = Caller("save", restaurants # << >> /\ w # "ok")
  /\ UNCHANGED <<playwright, browser, context, page, restaurants, open, attempt,
                 lastError, lastInput, attemptStart, trace, teardowns>>

\* ---------------------------------------------------------------- __exit__

\* __exit__: the teardown; it returns None, so an exception of the body
\* goes on to the caller, replaced by the teardown's own if it raises.
Exit(cfail) ==
  /\ pc = "exit"
  /\ LET td == CleanupResources(Fields(playwright, browser, context, page),
                                open, cfail, "__exit__")
     IN /\ open' = td.open
        /\ teardowns' = Append(teardowns, td)
        /\ exc' = IF td.raised # "none" THEN Exc(td.raised, "_cleanup_resources")
                  ELSE exc
  /\ pc' = Caller("exit", exc' # NoExc)
  /\ UNCHANGED <<playwright, browser, context, page, restaurants, file, attempt,
                 lastError, lastInput, attemptStart, trace, writes>>

\* ------------------------------------------------------------ specification

\* The inputs an action reads: the teardown's only where the teardown runs,
\* the write's only where a write is made.
CleanupInputs(raised) == IF raised = "none" THEN {NoFail} ELSE Fails

WriteInputs(records) == IF records = << >> THEN {"ok"} ELSE WriteOutcomes

Next ==
  \/ /\ pc = "enter"
     /\ \E fail \in Fails : \E cfail \in CleanupInputs(fail.kind) : Enter(fail, cfail)
  \/ /\ pc = "get"
     /\ \E in \in AttemptInputs :
          \E cfail \in CleanupInputs(TryBody(in, restaurants).raised) :
            GetRestaurants(in, cfail)
  \/ /\ pc = "save"
     /\ \E w \in WriteInputs(restaurants) : SaveToCsv(w)
  \/ /\ pc = "exit"
     /\ \E cfail \in Fails : Exit(cfail)

Spec == Init /\ [][Next]_vars

\* The caller runs on: every step of the session that can be taken is taken.
FairSpec == Spec /\ WF_vars(Next)

\* ------------------------------------------- field extraction on its own

\* The text an element matched by a selector shows.
FieldText ==
  ("h3" :> "Luma" @@ "span[aria-label]" :> "4.5" @@
   "[data-dtype='d3adr']" :> "12 King St\nToronto" @@ "[data-dtype='d3ph']" :> "555-0100")

\* Every parsed block: each selector on its own matches nothing, raises, or
\* matches an element.
AllSoups ==
  {s \in [Selectors -> {NoMatch, Raises} \cup {Text(FieldText[x]) : x \in Selectors}] :
     \A sel \in Selectors : s[sel].found => s[sel].text = FieldText[sel]}

\* A block is handed to _get_restaurant_details.
ExtractInit ==
  /\ pc = "extract"
  /\ playwright = TRUE /\ browser = TRUE /\ context = TRUE /\ page = TRUE
  /\ restaurants = << >>
  /\ open = Resources
  /\ file = NoFile
  /\ exc = NoExc
  /\ attempt = 1
  /\ lastError = "none"
  /\ lastInput \in {Input("loop", "none", "not_visible", <<b>>) :
                      b \in {BlockRaises(k) : k \in ErrKinds}
                            \cup {BlockSoup(s) : s \in AllSoups}}
  /\ attemptStart = [open |-> Resources, restaurants |-> << >>, teardowns |-> 0]
  /\ trace = << >>
  /\ teardowns = << >>
  /\ writes = 0

\* _get_restaurant_details on the block: the record it returns, or what it
\* raises.
Extract ==
  /\ pc = "extract"
  /\ LET d == GetRestaurantDetails(lastInput.blocks[1])
     IN /\ restaurants' = IF d.raised = "none" THEN <<d.details>> ELSE << >>
        /\ lastError' = d.raised
  /\ pc' = "extracted"
  /\ UNCHANGED <<playwright, browser, context, page, open, file, exc, attempt,
                 lastInput, attemptStart, trace, teardowns, writes>>

ExtractSpec == ExtractInit /\ [][Extract]_vars

\* ------------------------------------------------------------------ claims

\* The session went through __enter__ and __exit__ and control is back at
\* the caller.
ScopeExited ==
  /\ pc = "done"
  /\ teardowns # << >>
  /\ teardowns[Len(teardowns)].by = "__exit__"

\* initialize_browser failed and control is back at the caller.
InitFailed ==
  /\ pc = "done"
  /\ teardowns # << >>
  /\ teardowns[1].by = "initialize_browser"

\* The number of release calls the teardowns so far made on resource r.
ReleaseCalls(r) ==
  Cardinality({<<i, j>> \in (DOMAIN teardowns) \X (1..Len(ReleaseOrder)) :
                 j \in DOMAIN teardowns[i].calls /\ teardowns[i].calls[j] = r})

\* C1: a session that went through __enter__ and __exit__ has run
\* _cleanup_resources exactly once when control is back at the caller,
\* whatever happened in the scope.
C1_TeardownExactlyOnce == ScopeExited => Len(teardowns) = 1

\* C2: when control is back at the caller of the session, on whatever exit
\* path, no acquired resource is still open.
C2_AllReleasedOnReturn == pc = "done" => open = {}

\* C3: a teardown that begins with no resource open calls no release and
\* raises nothing, and no resource has its release called twice.
C3_TeardownIdempotent ==
  /\ \A i \in DOMAIN teardowns :
       teardowns[i].held = {} =>
         teardowns[i].calls = << >> /\ teardowns[i].raised = "none"
  /\ \A r \in Resources : ReleaseCalls(r) <= 1

C5_InitFailureReleases == InitFailed => open = {} /\ exc # NoExc

\* C6: a call of get_restaurants makes at most 3 attempts and ends: while
\* the call runs fewer than 3 attempts are made and one more can be made,
\* each step of the call is one more attempt, an attempt that returns ends
\* the call, and the third attempt ends it; a fourth never happens.
C6_AtMostThreeAttempts ==
  /\ [](attempt <= 3)
  /\ [](pc = "get" => attempt < 3 /\ ENABLED <<Next>>_vars)
  /\ [][pc = "get" =>
          /\ attempt' = attempt + 1
          /\ lastError' = "none" => pc' = "save"
          /\ lastError' # "none" /\ attempt' < 3 => pc' = "get"
          /\ attempt' = 3 => pc' # "get"]_vars

\* The third attempt failed and the call has ended.
C6_Witness == attempt = 3 /\ lastError # "none" /\ pc = "exit"

\* C7: when the last allowed attempt of get_restaurants has failed, the
\* error on its way to the caller is of the kind that attempt raised.
C7_FinalErrorPropagates ==
  (pc = "exit" /\ attempt = 3 /\ lastError # "none") => exc.kind = lastError

\* The last attempt met a timeout of the wait for a result block.
TimedOut == lastInput.stage = "wait_for_selector" /\ lastInput.err = "TimeoutError"

\* The attempt that met the timeout returned, was not retried, appended
\* nothing, ran neither cookie handling nor extraction and no teardown.
TimeoutDegrades ==
  TimedOut =>
    /\ lastError = "none"
    /\ pc # "get"
    /\ restaurants = << >>
    /\ \A j \in DOMAIN trace : trace[j][1] \in {"goto", "wait_for_selector"}
    /\ pc \in {"save", "exit"} =>
         open = attemptStart.open /\ Len(teardowns) = attemptStart.teardowns

\* C8: an attempt whose wait for a result block times out returns without
\* raising, is not retried, leaves the result sequence empty, runs neither
\* cookie handling nor extraction and releases nothing, and the teardown of
\* __exit__ is then the only teardown of the session.
C8_TimeoutOnlyTeardown ==
  /\ TimeoutDegrades
  /\ TimedOut /\ pc = "done" => Len(teardowns) = 1

\* The block indices the last attempt visited, in order.
Visited == [j \in DOMAIN SelectSeq(trace, LAMBDA e : e[1] = "nth") |->
              SelectSeq(trace, LAMBDA e : e[1] = "nth")[j][2]]

\* The records of the blocks of a page that do not raise, in index order.
RecordsOf(blocks) ==
  LET good == SelectSeq(blocks, LAMBDA b : b.raises = "none")
  IN [j \in DOMAIN good |-> GetRestaurantDetails(good[j]).details]

\* C9: an attempt that reaches the loop on a page of N blocks visits the
\* indices 0..N-1 once each in order, and appends exactly the records of the
\* blocks that do not raise, in index order.
C9_LoopVisitsEveryBlock ==
  lastInput.stage = "loop" =>
    /\ Visited = [j \in 1..Len(lastInput.blocks) |-> j - 1]
    /\ restaurants = attemptStart.restaurants \o RecordsOf(lastInput.blocks)

\* Three blocks, the middle one raising: two records.
C9_Witness ==
  /\ lastInput.stage = "loop"
  /\ Len(lastInput.blocks) = 3
  /\ lastInput.blocks[1].raises = "none"
  /\ lastInput.blocks[2].raises # "none"
  /\ lastInput.blocks[3].raises = "none"
  /\ Len(restaurants) = 2

\* The texts the blocks of a page can show.
PageTexts == {s[sel].text : s \in Soups, sel \in Selectors}

\* C10: every record of the result sequence has exactly the four keys Name,
\* Rating, Address and Phone, each holding a text of the page or "N/A".
C10_FourKeys ==
  \A i \in DOMAIN restaurants :
    /\ DOMAIN restaurants[i] = {"Name", "Rating", "Address", "Phone"}
    /\ \A k \in DOMAIN restaurants[i] :
         \/ restaurants[i][k] = "N/A"
         \/ restaurants[i][k] # "" /\ restaurants[i][k] \in PageTexts

\* A record with a missing field beside a scraped one.
C10_Witness ==
  \E i \in DOMAIN restaurants :
    restaurants[i].Address = "N/A" /\ restaurants[i].Name = "Cafe, Bar"

\* The block handed to _get_restaurant_details parsed to a document.
Parsed == lastInput.blocks[1].raises = "none"

RanCookies == lastInput.stage \in {"count_log", "count_range", "loop"}

\* C12: whatever accept_cookies meets (button clicked, not visible, a call
\* raising a PlaywrightError or another Exception), it returns and the
\* attempt goes on to locate the result blocks; on a page whose blocks can
\* be counted the attempt returns and has visited every block.
C12_CookiesNeverAbort ==
  RanCookies =>
    /\ Len(trace) >= 4
    /\ trace[3] = Ev("accept_cookies", 0)
    /\ trace[4] = Ev("count", 0)
    /\ lastInput.stage = "loop" =>
         lastError = "none" /\ Len(Visited) = Len(lastInput.blocks)

\* The cookie button could not be located, and two blocks were extracted.
C12_Witness ==
  /\ lastInput.stage = "loop"
  /\ lastInput.cookies = "PlaywrightError"
  /\ Len(restaurants) = 2

\* C13: a release call that raises inside a teardown makes
\* _cleanup_resources raise that error, and when the teardown is the one of
\* __exit__ that error is the one that reaches the caller of the session.
C13_ReleaseFailurePropagates ==
  /\ \A i \in DOMAIN teardowns :
       teardowns[i].fail.at # "none" => teardowns[i].raised = teardowns[i].fail.kind
  /\ (ScopeExited /\ teardowns[Len(teardowns)].fail.at # "none") =>
       exc = Exc(teardowns[Len(teardowns)].fail.kind, "_cleanup_resources")

\* The session ended with __exit__ raising because browser.close() raised.
C13_Witness ==
  /\ ScopeExited
  /\ teardowns[Len(teardowns)].fail = FailAt("browser", "PlaywrightError")
  /\ teardowns[Len(teardowns)].calls = <<"page", "context", "browser">>
  /\ exc.kind = "PlaywrightError"

\* The run failed fatally: initialize_browser raised, or the last allowed
\* attempt of get_restaurants did.
FatalFailure ==
  \/ teardowns # << >> /\ teardowns[1].by = "initialize_browser"
  \/ attempt = 3 /\ lastError # "none"

\* C14: after a fatal failure the caller is in __exit__ or out of the
\* session, never at save_to_csv, and the output file has not been written:
\* it is as it was before the run.
C14_NoPersistAfterFatal ==
  FatalFailure =>
    /\ pc \in {"exit", "done"}
    /\ writes = 0
    /\ file \in {NoFile, OldFile}

\* get_restaurants gave up after three attempts and the session is over,
\* the file of the earlier run still there.
C14_Witness ==
  /\ pc = "done"
  /\ attempt = 3 /\ lastError # "none"
  /\ file = OldFile

\* C15: a save_to_csv step taken on an empty result sequence writes
\* nothing, leaves the file at the output path as it is, raises nothing and
\* hands control on to the end of the with block.
C15_EmptySaveWritesNothing ==
  [][(pc = "save" /\ restaurants = << >>) =>
       /\ file' = file
       /\ writes' = writes
       /\ exc' = NoExc
       /\ pc' = "exit"]_vars

\* get_restaurants returned without a record, save_to_csv has run and the
\* file of the earlier run is still there.
C15_Witness ==
  /\ pc = "exit"
  /\ attempt >= 1 /\ lastError = "none"
  /\ restaurants = << >>
  /\ exc = NoExc /\ writes = 0
  /\ file = OldFile

\* A save_to_csv that wrote the frame has run.
SavedOk == writes = 1 /\ file.lines # << >>

\* A reader of csv at the start of a file: outside quotes, nothing read.
ReadStart == [quoted |-> FALSE, cell |-> "", row |-> << >>, rows |-> << >>]

\* What a reader of csv makes of one more line, its line end included. A
\* quote opens and closes a cell in which commas and line ends are text (a
\* doubled quote inside it is one quote: an opened cell takes the quote that
\* follows a closing one); a comma ends a cell and a line end a row.
RECURSIVE ReadLine(_, _, _)
ReadLine(line, st, closed) ==
  IF line = ""
  THEN IF st.quoted
       THEN [st EXCEPT !.cell = @ \o "\n"]
       ELSE [st EXCEPT !.cell = "", !.row = << >>,
                       !.rows = Append(@, Append(st.row, st.cell))]
  ELSE LET c == Head(line)
           rest == Tail(line)
       IN IF st.quoted
          THEN IF c = "\"" THEN ReadLine(rest, [st EXCEPT !.quoted = FALSE], TRUE)
               ELSE ReadLine(rest, [st EXCEPT !.cell = @ \o c], FALSE)
          ELSE IF c = "\""
               THEN ReadLine(rest, [st EXCEPT !.quoted = TRUE,
                                              !.cell = IF closed THEN @ \o "\"" ELSE @],
                             FALSE)
          ELSE IF c = ","
               THEN ReadLine(rest, [st EXCEPT !.cell = "", !.row = Append(@, st.cell)],
                             FALSE)
          ELSE ReadLine(rest, [st EXCEPT !.cell = @ \o c], FALSE)

\* What a reader of csv makes of a file: its rows of cells.
RECURSIVE ReadCsv(_, _)
ReadCsv(lines, st) ==
  IF lines = << >> THEN st.rows
  ELSE ReadCsv(Tail(lines), ReadLine(Head(lines), st, FALSE))

\* The line breaks inside the texts of a record, and of a sequence of them.
Breaks(rec) ==
  LET In(t) == Cardinality({i \in 1..Len(t) : SubSeq(t, i, i) = "\n"})
  IN In(rec.Name) + In(rec.Rating) + In(rec.Address) + In(rec.Phone)

RECURSIVE BreaksIn(_)
BreaksIn(records) ==
  IF records = << >> THEN 0 ELSE Breaks(Head(records)) + BreaksIn(Tail(records))

\* The rows a reader finds in the file are the header and the records, in
\* the order of the result sequence and of the columns, and nothing else.
FileHoldsRecords ==
  ReadCsv(file.lines, ReadStart) =
    <<Header>> \o [i \in DOMAIN restaurants |-> Row(restaurants[i])]

\* save_to_csv leaves the result sequence as it is.
SaveKeepsRecords == [][pc = "save" => restaurants' = restaurants]_vars

\* C16 as stated: after a save of N >= 1 records the file is exactly N+1
\* lines, the header and a row a record in order, and the result sequence
\* is unchanged.
C16_ExactlyNPlusOneLines ==
  /\ [](SavedOk =>
          /\ Len(file.lines) = Len(restaurants) + 1
          /\ file.lines[1] = "Name,Rating,Address,Phone"
          /\ FileHoldsRecords)
  /\ SaveKeepsRecords

\* C16, amended: after a save of N >= 1 records the file is, wholesale, the
\* header line followed by one csv row per record, in the order of the result
\* sequence and with the columns Name, Rating, Address, Phone; a row takes
\* one line more for each line break inside its texts, so the file is N+1
\* lines exactly when no text holds a line break; the result sequence is
\* unchanged.
C16_HeaderAndOneRowPerRecord ==
  /\ [](SavedOk =>
          /\ restaurants # << >>
          /\ Len(file.lines) = Len(restaurants) + 1 + BreaksIn(restaurants)
          /\ file.lines[1] = "Name,Rating,Address,Phone"
          /\ FileHoldsRecords)
  /\ SaveKeepsRecords

\* Two records are saved, the first with an address of two lines, the
\* second with a comma in its name: four lines in the file.
C16_Witness ==
  /\ SavedOk /\ pc = "done"
  /\ Len(restaurants) = 2
  /\ file.lines = <<"Name,Rating,Address,Phone",
                    "Luma,4.5,\"12 King St",
                    "Toronto\",555-0100",
                    "\"Cafe, Bar\",N/A,N/A,555-0199">>

\* C17: in the last attempt's loop, between the extraction attempts of any
\* two consecutive blocks there is a pacing delay, whether the earlier block
\* succeeded or failed.
C17_DelayBetweenBlocks ==
  lastInput.stage = "loop" =>
    \A r \in 0..(Len(lastInput.blocks) - 2) :
      \E i, j, k \in DOMAIN trace :
        /\ i < j /\ j < k
        /\ trace[i] = Ev("nth", r)
        /\ trace[j] = Ev("sleep", r)
        /\ trace[k] = Ev("nth", r + 1)

\* C18: every attempt of get_restaurants starts with the page, the context
\* and the browser still held.
C18_AttemptsStartHeld ==
  attempt >= 1 => {"page", "context", "browser"} \subseteq attemptStart.open

\* One sequence is the beginning of another.
IsPrefix(s, t) == Len(s) <= Len(t) /\ SubSeq(t, 1, Len(s)) = s

\* C19: an attempt that ends by raising leaves the result sequence as it was
\* when the attempt began; after the call the result sequence holds at most
\* one record per block of the attempt that returned; and no step removes,
\* changes or reorders a record already appended.
C19_FailedAttemptsAppendNothing ==
  /\ [](lastError # "none" => restaurants = attemptStart.restaurants)
  /\ []((attempt >= 1 /\ lastError = "none") =>
          /\ attemptStart.restaurants = << >>
          /\ Len(restaurants) <= Len(lastInput.blocks))
  /\ [][IsPrefix(restaurants, restaurants')]_vars

\* The first attempt raised, the second returned from a page of three
\* blocks, one of them raising: two records.
C19_Witness ==
  /\ attempt = 2 /\ lastError = "none"
  /\ Len(teardowns) >= 1
  /\ lastInput.stage = "loop"
  /\ Len(lastInput.blocks) = 3
  /\ Len(restaurants) = 2

=============================================================================
